---------------------------- MODULE Spec2Model ----------------------------
(***************************************************************************)
(* nsq: a DNS client speaking the wire protocol over UDP.                  *)
(*   src/src/client.rs  DNSMessage (wire codec) and Client (one exchange)  *)
(*   src/src/main.rs    main (fan-out over hosts, join_all, aggregation)   *)
(* Bytes are naturals in 0..255, byte strings are sequences of bytes, and  *)
(* text (host names, printed addresses) is a sequence of ASCII codes.      *)
(***************************************************************************)
EXTENDS Naturals, Sequences, FiniteSets, TLC

VARIABLES
    hosts,      \* cli.hosts: the host names given on the command line
    server,     \* main's `server` string (an index into ServerPool), 0 = unset
    tasks,      \* main's `tasks`: one record per spawned JoinHandle, in order
    mainpc,     \* where main is
    outcome,    \* what main returned / printed
    probe       \* a direct call of one codec function (input and output)

vars == <<hosts, server, tasks, mainpc, outcome, probe>>

-----------------------------------------------------------------------------
(* Bytes and sequences *)

Min(a, b) == IF a < b THEN a ELSE b

\* a conversion to u8 that keeps seven bits
AsU8_SevenBits(n) == n % 128

\* Rust `as u8` of a usize
AsU8(n) == n % 256

\* ((hi as u16) << 8) | lo as u16
U16(hi, lo) == hi * 256 + lo

\* the 0-based slice v[from..to] of Rust, as a sequence
Slice(v, from, to) == SubSeq(v, from + 1, to)

\* the 0-based element v[i] of Rust
At(v, i) == v[i + 1]

\* Vec::remove(index): the vector without its element at 0-based `index`
VecRemove(v, index) == SubSeq(v, 1, index) \o SubSeq(v, index + 2, Len(v))

\* str::split(sep): the pieces between separators; "" gives one empty piece
Split(s, sep) ==
    LET at == {i \in 1..Len(s) : s[i] = sep}
        \* the position of the k-th separator; 0 and Len(s) + 1 bound the text
        pos(k) == IF k = 0 THEN 0
                  ELSE IF k > Cardinality(at) THEN Len(s) + 1
                  ELSE CHOOSE i \in at : Cardinality({j \in at : j < i}) = k - 1
    IN [k \in 1..(Cardinality(at) + 1) |-> SubSeq(s, pos(k - 1) + 1, pos(k) - 1)]

\* n copies of x
Repeat(x, n) == [i \in 1..n |-> x]

RECURSIVE Concat(_)
Concat(ss) == IF ss = <<>> THEN <<>> ELSE Head(ss) \o Concat(Tail(ss))

-----------------------------------------------------------------------------
(* bincode, as configured in encode/decode: big endian, varint lengths,    *)
(* no limit, trailing bytes allowed on decode.  A [u8; 2] is its two bytes; *)
(* a Vec<u8> is its length as a varint followed by its bytes.              *)

\* bincode's varint of a length: one byte up to 250, else a marker byte
\* (251: u16, 252: u32) followed by the big-endian value
VarintEncode(n) ==
    IF n <= 250 THEN <<n>>
    ELSE IF n < 65536 THEN <<251, n \div 256, n % 256>>
    ELSE <<252, (n \div 16777216) % 256, (n \div 65536) % 256,
           (n \div 256) % 256, n % 256>>

\* the big-endian value of the n bytes at 0-based `pos`; a value of 65536 or
\* more is given as 65536, which is already more bytes than a datagram holds
BigEndian(v, pos, n) ==
    IF \E k \in 0..(n - 3) : At(v, pos + k) # 0 THEN 65536
    ELSE U16(At(v, pos + n - 2), At(v, pos + n - 1))

\* reads a varint u64 at 0-based `pos`: markers 254 (u128) and 255 are
\* rejected, and so is running out of bytes
VarintWidth(marker) ==
    IF marker = 251 THEN 2 ELSE IF marker = 252 THEN 4 ELSE 8

VarintDecode(v, pos) ==
    IF pos >= Len(v) THEN [ok |-> FALSE, val |-> 0, next |-> pos]
    ELSE LET marker == At(v, pos) IN
         IF marker <= 250 THEN [ok |-> TRUE, val |-> marker, next |-> pos + 1]
         ELSE IF marker >= 254 THEN [ok |-> FALSE, val |-> 0, next |-> pos]
         ELSE IF pos + 1 + VarintWidth(marker) > Len(v)
              THEN [ok |-> FALSE, val |-> 0, next |-> pos]
              ELSE [ok |-> TRUE,
                    val |-> BigEndian(v, pos + 1, VarintWidth(marker)),
                    next |-> pos + 1 + VarintWidth(marker)]

\* reads a Vec<u8> at 0-based `pos`
VecDecode(v, pos) ==
    LET n == VarintDecode(v, pos) IN
    IF ~n.ok \/ n.next + n.val > Len(v)
    THEN [ok |-> FALSE, val |-> <<>>, next |-> pos]
    ELSE [ok |-> TRUE, val |-> Slice(v, n.next, n.next + n.val),
          next |-> n.next + n.val]

\* bincode_opts.serialize(&self) of a DNSMessage
BincodeSerialize(msg) ==
    msg.id \o msg.flags \o msg.questions \o msg.answers_rrs
      \o msg.authority_rrs \o msg.additional_rrs
      \o VarintEncode(Len(msg.queries)) \o msg.queries
      \o VarintEncode(Len(msg.answers)) \o msg.answers

NoMessage ==
    [id |-> <<0, 0>>, flags |-> <<0, 0>>, questions |-> <<0, 0>>,
     answers_rrs |-> <<0, 0>>, authority_rrs |-> <<0, 0>>,
     additional_rrs |-> <<0, 0>>, queries |-> <<>>, answers |-> <<>>]

\* bincode_opts.deserialize::<DNSMessage>(bytes)
BincodeDeserialize(bytes) ==
    IF Len(bytes) < 12 THEN [ok |-> FALSE, msg |-> NoMessage]
    ELSE LET q == VecDecode(bytes, 12)
             a == VecDecode(bytes, q.next)
         IN IF ~q.ok \/ ~a.ok THEN [ok |-> FALSE, msg |-> NoMessage]
            ELSE [ok |-> TRUE,
                  msg |-> [id |-> Slice(bytes, 0, 2),
                           flags |-> Slice(bytes, 2, 4),
                           questions |-> Slice(bytes, 4, 6),
                           answers_rrs |-> Slice(bytes, 6, 8),
                           authority_rrs |-> Slice(bytes, 8, 10),
                           additional_rrs |-> Slice(bytes, 10, 12),
                           queries |-> q.val,
                           answers |-> a.val]]

-----------------------------------------------------------------------------
(* DNSMessage *)

QueryTypes == {"A", "AAAA", "SOA", "CNAME"}

header_size == 12

\* DNSMessage::new(queries), with the random u16 `id` as a parameter
DNSMessage_new(queries, id) ==
    [id |-> <<id \div 256, id % 256>>,
     flags |-> <<1, 0>>,
     questions |-> <<0, 1>>,
     answers_rrs |-> <<0, 0>>,
     authority_rrs |-> <<0, 0>>,
     additional_rrs |-> <<0, 0>>,
     queries |-> queries,
     answers |-> <<>>]

\* DNSMessage::encode(&self): serialize, then remove the byte at header_size
DNSMessage_encode(msg) == VecRemove(BincodeSerialize(msg), header_size)

encode_query_type(query_type) ==
    IF query_type = "A" THEN <<0, 1>>
    ELSE IF query_type = "AAAA" THEN <<0, 28>>
    ELSE <<>>

\* decode_query_type knowing the address types only
decode_query_type_AddressOnly(values) ==
    IF values = <<0, 1>> THEN [ok |-> TRUE, val |-> "A"]
    ELSE IF values = <<0, 28>> THEN [ok |-> TRUE, val |-> "AAAA"]
    ELSE [ok |-> FALSE, val |-> "DecodeError"]

decode_query_type(values) ==
    IF values = <<0, 1>> THEN [ok |-> TRUE, val |-> "A"]
    ELSE IF values = <<0, 28>> THEN [ok |-> TRUE, val |-> "AAAA"]
    ELSE IF values = <<0, 5>> THEN [ok |-> TRUE, val |-> "CNAME"]
    ELSE IF values = <<0, 6>> THEN [ok |-> TRUE, val |-> "SOA"]
    ELSE [ok |-> FALSE, val |-> "DecodeError"]

encode_class_type == <<0, 1>>

\* decode_class_type taking any other value for IN
decode_class_type_Default(values) == [ok |-> TRUE, val |-> "IN"]

decode_class_type(values) ==
    IF values = <<0, 1>> THEN [ok |-> TRUE, val |-> "IN"]
    ELSE [ok |-> FALSE, val |-> "DecodeError"]

\* the label sequence of encode_host: each word of host.split(".") preceded
\* by its length as u8, then the end-of-name byte
RECURSIVE EncodeWords(_)
EncodeWords(words) ==
    IF words = <<>> THEN <<>>
    ELSE <<AsU8(Len(Head(words)))>> \o Head(words) \o EncodeWords(Tail(words))

encode_host(host, query_type) ==
    EncodeWords(Split(host, 46)) \o <<0>>
      \o encode_query_type(query_type) \o encode_class_type

\* DNSMessage::decode(&self, data, rcvd_len)
DNSMessage_decode(data, rcvd_len) == BincodeDeserialize(Slice(data, 0, rcvd_len))

is_answer(msg) == msg.flags[1] \div 128 = 1

is_query(msg) == msg.flags[1] \div 128 = 0

\* rd_code comparing the whole second flags byte instead of its low 4 bits
rd_code_Unmasked(msg) ==
    LET code == msg.flags[2] IN
    IF code = 1 THEN "RDCodeFormatError"
    ELSE IF code = 2 THEN "RDCodeServerFailure"
    ELSE IF code = 3 THEN "RDCodeNameError"
    ELSE IF code = 4 THEN "RDCodeNotImplemented"
    ELSE IF code = 5 THEN "RDCodeRefused"
    ELSE "Ok"

\* DNSMessage::rd_code(&self): "Ok" or the name of the error
rd_code(msg) ==
    LET code == msg.flags[2] % 16 IN
    IF code = 0 THEN "Ok"
    ELSE IF code = 1 THEN "RDCodeFormatError"
    ELSE IF code = 2 THEN "RDCodeServerFailure"
    ELSE IF code = 3 THEN "RDCodeNameError"
    ELSE IF code = 4 THEN "RDCodeNotImplemented"
    ELSE IF code = 5 THEN "RDCodeRefused"
    ELSE "Ok"

-----------------------------------------------------------------------------
(* std::net address text: Ipv4Addr::to_string and Ipv6Addr::to_string *)

\* the decimal digits of n, as ASCII codes, without leading zeros
RECURSIVE Dec(_)
Dec(n) == IF n < 10 THEN <<48 + n>> ELSE Dec(n \div 10) \o <<48 + (n % 10)>>

HexDigit(d) == IF d < 10 THEN 48 + d ELSE 87 + d

\* the lowercase hexadecimal digits of n ({:x}), without leading zeros
RECURSIVE Hex(_)
Hex(n) == IF n < 16 THEN <<HexDigit(n)>> ELSE Hex(n \div 16) \o <<HexDigit(n % 16)>>

\* the pieces joined by the separator character
RECURSIVE Join(_, _)
Join(pieces, sep) ==
    IF pieces = <<>> THEN <<>>
    ELSE IF Len(pieces) = 1 THEN Head(pieces)
    ELSE Head(pieces) \o <<sep>> \o Join(Tail(pieces), sep)

Ipv4Text(a, b, c, d) == Join(<<Dec(a), Dec(b), Dec(c), Dec(d)>>, 46)

\* the first longest run of zero segments, as [start, len] (0-based start)
RECURSIVE LongestZeroRun(_, _, _, _)
LongestZeroRun(segments, i, current, longest) ==
    IF i > Len(segments) THEN longest
    ELSE IF segments[i] = 0
         THEN LET cur == [start |-> IF current.len = 0 THEN i - 1 ELSE current.start,
                          len |-> current.len + 1]
              IN LongestZeroRun(segments, i + 1, cur,
                                IF cur.len > longest.len THEN cur ELSE longest)
         ELSE LongestZeroRun(segments, i + 1, [start |-> 0, len |-> 0], longest)

HexGroups(segments) == Join([k \in 1..Len(segments) |-> Hex(segments[k])], 58)

\* Ipv6Addr's Display: an IPv4-mapped address prints as ::ffff:a.b.c.d;
\* otherwise the first longest run of two or more zero segments prints as ::
Ipv6Text(segments) ==
    IF SubSeq(segments, 1, 6) = <<0, 0, 0, 0, 0, 65535>>
    THEN <<58, 58, 102, 102, 102, 102, 58>>
           \o Ipv4Text(segments[7] \div 256, segments[7] % 256,
                       segments[8] \div 256, segments[8] % 256)
    ELSE LET zeroes == LongestZeroRun(segments, 1, [start |-> 0, len |-> 0],
                                      [start |-> 0, len |-> 0])
         IN IF zeroes.len > 1
            THEN HexGroups(SubSeq(segments, 1, zeroes.start)) \o <<58, 58>>
                   \o HexGroups(SubSeq(segments, zeroes.start + zeroes.len + 1, 8))
            ELSE HexGroups(segments)

-----------------------------------------------------------------------------
(* DNSMessage::decode_query_answers *)

\* the address of an A record at cursor i: Ipv4Addr::new(..).to_string()
AddressA(resp, i) ==
    Ipv4Text(At(resp, i + 12), At(resp, i + 13), At(resp, i + 14), At(resp, i + 15))

\* the AAAA address with the two bytes of every group swapped
AddressAAAA_Swapped(resp, i) ==
    Ipv6Text([k \in 1..8 |-> U16(At(resp, i + 11 + 2 * k), At(resp, i + 10 + 2 * k))])

\* the address of an AAAA record at cursor i: Ipv6Addr::new(..).to_string()
AddressAAAA(resp, i) ==
    Ipv6Text([k \in 1..8 |-> U16(At(resp, i + 10 + 2 * k), At(resp, i + 11 + 2 * k))])

\* a cursor that advances by the prefix and the size of an IPv4 address
NextRecord_AddressSize(i, data_len) == i + 12 + 4

\* the cursor after the record at i whose RDATA length is data_len
NextRecord(i, data_len) == i + 12 + data_len

\* whether the loop body runs with the cursor at i
WalkContinues(i, resp_len) == i + 12 < resp_len

\* an index past the end answered by a decode error
IndexOutOfBounds_Typed == [kind |-> "DecodeError", answers |-> <<>>]

\* resp[index] with index >= resp.len(): the task panics
IndexOutOfBounds == [kind |-> "Panic", answers |-> <<>>]

\* the while loop: "Ok" with the answers, "DecodeError", or "Panic" when an
\* index is out of bounds
RECURSIVE AnswerWalk(_, _, _, _)
AnswerWalk(host, resp, i, answers) ==
    IF ~WalkContinues(i, Len(resp)) THEN [kind |-> "Ok", answers |-> answers]
    ELSE IF At(resp, i) # 192 THEN [kind |-> "DecodeError", answers |-> <<>>]
    ELSE LET query_type == decode_query_type(Slice(resp, i + 2, i + 4))
             class_type == decode_class_type(Slice(resp, i + 4, i + 6))
             data_len == U16(At(resp, i + 10), At(resp, i + 11))
         IN IF ~query_type.ok \/ ~class_type.ok
            THEN [kind |-> "DecodeError", answers |-> <<>>]
            ELSE IF ~(query_type.val = "A" \/ query_type.val = "AAAA")
            THEN AnswerWalk(host, resp, NextRecord(i, data_len), answers)
            ELSE IF i + (IF query_type.val = "A" THEN 15 ELSE 27) >= Len(resp)
            THEN IndexOutOfBounds
            ELSE AnswerWalk(host, resp, NextRecord(i, data_len),
                     Append(answers,
                         [host |-> host,
                          address |-> IF query_type.val = "A"
                                      THEN AddressA(resp, i)
                                      ELSE AddressAAAA(resp, i),
                          query_type |-> query_type.val,
                          class_type |-> class_type.val]))

decode_query_answers(host, queries_len, rest) ==
    IF Len(rest) < queries_len THEN [kind |-> "Ok", answers |-> <<>>]
    ELSE AnswerWalk(host, Slice(rest, queries_len, Len(rest)), 0, <<>>)

-----------------------------------------------------------------------------
(* Client *)

max_datagram_size == 65507

Result(kind, answers) == [kind |-> kind, answers |-> answers]

Failure(kind) == Result(kind, <<>>)

\* the response handling with the response code checked before the ids
QueryResponse_StatusBeforeId(host, queries_len, msg, data, len) ==
    LET msg_decoded == DNSMessage_decode(data, len)
        rest == Slice(data, header_size, len)
    IN IF ~msg_decoded.ok THEN Failure("DecodeError")
       ELSE IF rd_code(msg_decoded.msg) # "Ok"
            THEN Failure(rd_code(msg_decoded.msg))
       ELSE IF msg.id # msg_decoded.msg.id THEN Failure("DecodeIdError")
       ELSE decode_query_answers(host, queries_len, rest)

\* the response handling with the answers walked before the response code
\* is checked
QueryResponse_WalkFirst(host, queries_len, msg, data, len) ==
    LET msg_decoded == DNSMessage_decode(data, len)
        rest == Slice(data, header_size, len)
        walked == decode_query_answers(host, queries_len, rest)
    IN IF ~msg_decoded.ok THEN Failure("DecodeError")
       ELSE IF msg.id # msg_decoded.msg.id THEN Failure("DecodeIdError")
       ELSE IF walked.kind # "Ok" THEN walked
       ELSE IF rd_code(msg_decoded.msg) = "Ok" THEN walked
       ELSE Failure(rd_code(msg_decoded.msg))

\* Client::query after socket.recv returned `len` bytes in `data`: decode,
\* compare the ids, check the response code, walk the answers
QueryResponse(host, queries_len, msg, data, len) ==
    LET msg_decoded == DNSMessage_decode(data, len)
        rest == Slice(data, header_size, len)
    IN IF ~msg_decoded.ok THEN Failure("DecodeError")
       ELSE IF msg.id # msg_decoded.msg.id THEN Failure("DecodeIdError")
       ELSE IF rd_code(msg_decoded.msg) = "Ok"
            THEN decode_query_answers(host, queries_len, rest)
            ELSE Failure(rd_code(msg_decoded.msg))

\* one socket shared by every client
BindSocket_Shared(t) == 1

\* the socket a successful UdpSocket::bind returns: a new one per call,
\* named after the task whose Client::new made the call
BindSocket(t) == t

\* a receive that gives up after a while
RecvReturns_Timeout(task) == TRUE

\* socket.recv(..).await returns only when a datagram (or an error) arrives:
\* there is no timeout
RecvReturns(task) == ~task.lost

-----------------------------------------------------------------------------
(* The resolver's side: the datagrams a task may receive *)

\* the largest number of records in a response, and of bytes cut off its end
MaxRecords == 2
MaxCut == 4

Header(id, flags, qd, an, ns, ar) ==
    id \o flags \o <<0, qd>> \o <<0, an>> \o <<0, ns>> \o <<0, ar>>

\* a resource record: name (two bytes), type, class, TTL, RDLENGTH, RDATA
Record(name, type, class, rdlen, rdata) ==
    <<name, 12>> \o type \o class \o <<0, 0, 0, 60>>
      \o <<rdlen \div 256, rdlen % 256>> \o rdata

Rdata4 == <<93, 184, 216, 34>>
Rdata16 == <<32, 1, 13, 184, 0, 0, 0, 0, 0, 0, 0, 0, 0, 0, 0, 1>>
Rdata16Mapped == <<0, 0, 0, 0, 0, 0, 0, 0, 0, 0, 255, 255, 10, 0, 2, 15>>
Rdata16Gaps == <<0, 1, 0, 0, 0, 0, 0, 2, 0, 0, 0, 0, 0, 0, 1, 3>>

RecordPool ==
    { Record(192, <<0, 1>>, <<0, 1>>, 4, Rdata4),
      Record(192, <<0, 28>>, <<0, 1>>, 16, Rdata16),
      Record(192, <<0, 28>>, <<0, 1>>, 16, Rdata16Mapped),
      Record(192, <<0, 28>>, <<0, 1>>, 16, Rdata16Gaps),
      Record(192, <<0, 1>>, <<0, 1>>, 6, Rdata4 \o <<7, 7>>),
      Record(192, <<0, 5>>, <<0, 1>>, 2, <<192, 12>>),
      Record(192, <<0, 6>>, <<0, 1>>, 0, <<>>),
      Record(192, <<0, 2>>, <<0, 1>>, 0, <<>>),
      Record(192, <<0, 1>>, <<0, 3>>, 4, Rdata4),
      Record(3, <<0, 1>>, <<0, 1>>, 4, Rdata4) }

RecordSeqs == UNION { [1..n -> RecordPool] : n \in 0..MaxRecords }

RCodes == 0..6

\* another transaction id than `id`
OtherId(id) == <<id[1], (id[2] + 1) % 256>>

DropLast(d, k) == SubSeq(d, 1, Len(d) - Min(k, Len(d)))

\* responses to the query of `task`: the question echoed and then the records
\* (all in the answer section, or all in the authority section), possibly cut
\* short; or the header alone
Responses(task) ==
    { DropLast(Header(id, <<129, 128 + rc>>, 1,
                      IF an THEN Len(recs) ELSE 0,
                      IF an THEN 0 ELSE Len(recs), 0)
                 \o task.queries \o Concat(recs), cut) :
        id \in {task.msg.id, OtherId(task.msg.id)}, rc \in RCodes,
        an \in BOOLEAN, recs \in RecordSeqs, cut \in 0..MaxCut }
    \cup
    { Header(id, <<129, 128 + rc>>, 0, 0, 0, 0) :
        id \in {task.msg.id, OtherId(task.msg.id)}, rc \in RCodes }

\* the address record a resolver returns for the type asked
AnswerFor(query_type) ==
    IF query_type = "AAAA" THEN Record(192, <<0, 28>>, <<0, 1>>, 16, Rdata16)
    ELSE Record(192, <<0, 1>>, <<0, 1>>, 4, Rdata4)

\* the responses in the fan-out: an address, or no such name
FewResponses(task) ==
    { Header(task.msg.id, <<129, 128>>, 1, 1, 0, 0)
        \o task.queries \o AnswerFor(task.query_type),
      Header(task.msg.id, <<129, 131>>, 1, 0, 0, 0) \o task.queries }

Wire(task) == IF mainpc = "lib" THEN Responses(task) ELSE FewResponses(task)

-----------------------------------------------------------------------------
(* Inputs *)

\* the largest number of hosts on the command line
MaxHosts == 2

\* command lines: "a.b" repeated, and the two hosts "a.b" "c"
HostLists ==
    { Repeat(<<97, 46, 98>>, n) : n \in 0..MaxHosts }
      \cup { <<(<<97, 46, 98>>), (<<99>>)>> }

\* hosts queried through the library interface: "a.b", "ab", ""
LibHosts == { <<97, 46, 98>>, <<97, 98>>, <<>> }

\* hosts given to the codec directly: every text of 'a' and '.' up to
\* MaxHostLen characters, and hosts whose first label is very long
MaxHostLen == 4

CodecHosts == UNION { [1..n -> {97, 46}] : n \in 0..MaxHostLen }

LongHosts == { Repeat(97, n) \o <<46, 98>> : n \in {246, 256} }

\* values of random::<u16>(): two through the library, one in the fan-out
Ids == IF mainpc = "lib" THEN { 4660, 65535 } ELSE { 4660 }

\* --server values ("" when absent) and what read_nameservers may return
CliServers == { "", "::1" }
NameserverFiles == { "error", <<>>, <<"8.8.8.8", "1.1.1.1">> }

\* `server` after push_str(":53") unless it ends with ":53"
WithPort(s) ==
    CASE s = "::1" -> "::1:53"
      [] s = "8.8.8.8" -> "8.8.8.8:53"
      [] s = "1.1.1.1" -> "1.1.1.1:53"
      [] OTHER -> s

\* remote_addr.parse::<SocketAddr>(): the family, or "ParseError"
SocketAddrParse(s) ==
    IF s \in {"8.8.8.8:53", "1.1.1.1:53"} THEN "V4"
    ELSE IF s = "[::1]:53" THEN "V6"
    ELSE "ParseError"

-----------------------------------------------------------------------------
(* Tasks: the future spawned for one (host, query type) *)

NoResult == Result("none", <<>>)

NewTask(host, query_type, srv) ==
    [host |-> host, query_type |-> query_type, server |-> srv,
     pc |-> "new", sock |-> 0, queries |-> <<>>, msg |-> NoMessage,
     msg_enc |-> <<>>, nsent |-> 0, nrecv |-> 0, data |-> <<>>,
     lost |-> FALSE, result |-> NoResult]

\* a query that goes back to sending when its receive failed
Finished_Retry(task, result) ==
    IF result.kind = "RecvError" /\ task.nsent < 2
    THEN [task EXCEPT !.pc = "send"]
    ELSE [task EXCEPT !.pc = "done", !.result = result]

Finished(task, result) == [task EXCEPT !.pc = "done", !.result = result]

\* Client::new(server): parse, bind, connect
TaskNew(t) ==
    /\ tasks[t].pc = "new"
    /\ IF SocketAddrParse(tasks[t].server) = "ParseError"
       THEN tasks' = [tasks EXCEPT ![t] = Finished(@, Failure("ParseError"))]
       ELSE \/ tasks' = [tasks EXCEPT ![t] = Finished(@, Failure("BindError"))]
            \/ tasks' = [tasks EXCEPT ![t] =
                   Finished([@ EXCEPT !.sock = BindSocket(t)],
                            Failure("ConnectError"))]
            \/ tasks' = [tasks EXCEPT ![t] =
                   [@ EXCEPT !.sock = BindSocket(t), !.pc = "send"]]
    /\ UNCHANGED <<hosts, server, mainpc, outcome, probe>>

\* Client::query up to socket.send(..).await
TaskSend(t) ==
    /\ tasks[t].pc = "send"
    /\ \E id \in Ids, sent \in BOOLEAN :
         LET queries == encode_host(tasks[t].host, tasks[t].query_type)
             msg == DNSMessage_new(queries, id)
             ready == [tasks[t] EXCEPT !.queries = queries, !.msg = msg,
                                       !.msg_enc = DNSMessage_encode(msg)]
         IN tasks' = [tasks EXCEPT ![t] =
                IF sent THEN [ready EXCEPT !.pc = "recv", !.nsent = @ + 1]
                ELSE Finished(ready, Failure("SendError"))]
    /\ UNCHANGED <<hosts, server, mainpc, outcome, probe>>

\* Client::query from socket.recv(..).await to its return
TaskRecv(t) ==
    /\ tasks[t].pc = "recv"
    /\ RecvReturns(tasks[t])
    /\ \/ tasks' = [tasks EXCEPT ![t] = Finished(@, Failure("RecvError"))]
       \/ \E d \in Wire(tasks[t]) :
            LET len == Min(Len(d), max_datagram_size)
                task == tasks[t]
            IN tasks' = [tasks EXCEPT ![t] =
                   Finished([task EXCEPT !.data = Slice(d, 0, len),
                                         !.nrecv = @ + 1],
                            QueryResponse(task.host, Len(task.queries),
                                          task.msg, d, len))]
    /\ UNCHANGED <<hosts, server, mainpc, outcome, probe>>

\* the resolver never answers this query
TaskLose(t) ==
    /\ tasks[t].pc = "recv"
    /\ ~tasks[t].lost
    /\ tasks' = [tasks EXCEPT ![t].lost = TRUE]
    /\ UNCHANGED <<hosts, server, mainpc, outcome, probe>>

-----------------------------------------------------------------------------
(* main *)

NoOutcome == [kind |-> "none", error |-> "", answers |-> <<>>]

ErrorOutcome(error) == [kind |-> "error", error |-> error, answers |-> <<>>]

\* an aggregation that leaves failed tasks out and keeps the other answers
RECURSIVE Aggregate_Partial(_, _, _)
Aggregate_Partial(joined, i, answers) ==
    IF i > Len(joined) THEN [kind |-> "answers", error |-> "", answers |-> answers]
    ELSE Aggregate_Partial(joined, i + 1,
             IF joined[i].kind = "Ok" THEN answers \o joined[i].answers
             ELSE answers)

\* an aggregation that reports the error of the last failed task
RECURSIVE Aggregate_LastError(_, _, _)
Aggregate_LastError(joined, i, answers) ==
    LET failed == { k \in i..Len(joined) : joined[k].kind # "Ok" }
        last == CHOOSE k \in failed : \A j \in failed : j <= k
    IN IF failed = {}
       THEN [kind |-> "answers", error |-> "",
             answers |-> Concat([k \in 1..Len(joined) |-> joined[k].answers])]
       ELSE IF joined[last].kind = "Panic" THEN ErrorOutcome("GenericError")
       ELSE ErrorOutcome(joined[last].kind)

\* the loop over `joined`: the first error in task order, else all answers
RECURSIVE Aggregate(_, _, _)
Aggregate(joined, i, answers) ==
    IF i > Len(joined) THEN [kind |-> "answers", error |-> "", answers |-> answers]
    ELSE IF joined[i].kind = "Panic" THEN ErrorOutcome("GenericError")
    ELSE IF joined[i].kind = "Ok"
         THEN Aggregate(joined, i + 1, answers \o joined[i].answers)
         ELSE ErrorOutcome(joined[i].kind)

\* the `server` string: --server, else the first nameserver, else 8.8.8.8
MainServer ==
    /\ mainpc = "start"
    /\ \E cli_server \in CliServers, file \in NameserverFiles :
         IF cli_server # ""
         THEN server' = WithPort(cli_server) /\ mainpc' = "spawn"
                /\ UNCHANGED outcome
         ELSE IF file = "error"
         THEN outcome' = ErrorOutcome("GenericError") /\ mainpc' = "done"
                /\ UNCHANGED server
         ELSE server' = WithPort(IF Len(file) > 0 THEN file[1] ELSE "8.8.8.8")
                /\ mainpc' = "spawn" /\ UNCHANGED outcome
    /\ UNCHANGED <<hosts, tasks, probe>>

\* one iteration of `for host in cli.hosts`: two tokio::spawn
MainSpawn ==
    /\ mainpc = "spawn"
    /\ Len(tasks) < 2 * Len(hosts)
    /\ LET host == hosts[Len(tasks) \div 2 + 1]
       IN tasks' = tasks \o <<NewTask(host, "AAAA", server),
                              NewTask(host, "A", server)>>
    /\ UNCHANGED <<hosts, server, mainpc, outcome, probe>>

\* join_all(tasks).await returns once every task is done; then the loop
\* over the results and show_answers
MainJoin ==
    /\ mainpc = "spawn"
    /\ Len(tasks) = 2 * Len(hosts)
    /\ \A t \in 1..Len(tasks) : tasks[t].pc = "done"
    /\ outcome' = Aggregate([t \in 1..Len(tasks) |-> tasks[t].result], 1, <<>>)
    /\ mainpc' = "done"
    /\ UNCHANGED <<hosts, server, tasks, probe>>

NoProbe == [op |-> "none"]

Init ==
    /\ hosts \in HostLists
    /\ server = ""
    /\ tasks = <<>>
    /\ mainpc = "start"
    /\ outcome = NoOutcome
    /\ probe = NoProbe

TaskStep(t) == TaskNew(t) \/ TaskSend(t) \/ TaskRecv(t) \/ TaskLose(t)

Next ==
    \/ MainServer
    \/ MainSpawn
    \/ MainJoin
    \/ \E t \in 1..Len(tasks) : TaskStep(t)

Spec == Init /\ [][Next]_vars

\* the runtime runs every spawned task that can take a step, and main; a
\* receive returns unless the resolver never answers
TaskProgress(t) ==
    /\ t \in 1..Len(tasks)
    /\ (TaskNew(t) \/ TaskSend(t) \/ TaskRecv(t))

\* the largest number of hosts in the runs checked for progress
MaxFairHosts == 1

InitFair == Init /\ Len(hosts) <= MaxFairHosts

FairSpec ==
    /\ InitFair /\ [][Next]_vars
    /\ WF_vars(MainServer) /\ WF_vars(MainSpawn) /\ WF_vars(MainJoin)
    /\ \A t \in 1..(2 * MaxFairHosts) : WF_vars(TaskProgress(t))

-----------------------------------------------------------------------------
(* One exchange through the library interface: Client::new, then query *)

InitQuery ==
    /\ hosts = <<>>
    /\ server = ""
    /\ \E host \in LibHosts, query_type \in {"A", "AAAA"} :
         tasks = <<NewTask(host, query_type, "8.8.8.8:53")>>
    /\ mainpc = "lib"
    /\ outcome = NoOutcome
    /\ probe = NoProbe

NextQuery == TaskNew(1) \/ TaskSend(1) \/ TaskRecv(1) \/ TaskLose(1)

SpecQuery == InitQuery /\ [][NextQuery]_vars

-----------------------------------------------------------------------------
(* The codec functions called directly *)

RdCodeProbe(flags) == [op |-> "rd_code", flags |-> flags, out |-> "unset"]

EncodeProbe(host, query_type, id) ==
    [op |-> "encode", host |-> host, query_type |-> query_type, id |-> id,
     step |-> "new", msg |-> NoMessage, encoded |-> <<>>,
     decoded |-> [ok |-> FALSE, msg |-> NoMessage]]

InitCodec ==
    /\ hosts = <<>>
    /\ server = ""
    /\ tasks = <<>>
    /\ mainpc = "codec"
    /\ outcome = NoOutcome
    /\ \/ \E f0 \in 0..255, f1 \in 0..255 : probe = RdCodeProbe(<<f0, f1>>)
       \/ \E host \in CodecHosts, query_type \in QueryTypes,
             id \in {0, 4660, 65535} :
            probe = EncodeProbe(host, query_type, id)
       \/ \E host \in LongHosts, query_type \in QueryTypes :
            probe = EncodeProbe(host, query_type, 4660)

\* msg.rd_code() on a message with the given flags
CallRdCode ==
    /\ probe.op = "rd_code"
    /\ probe.out = "unset"
    /\ probe' = [probe EXCEPT !.out = rd_code([NoMessage EXCEPT !.flags = probe.flags])]
    /\ UNCHANGED <<hosts, server, tasks, mainpc, outcome>>

\* DNSMessage::new(DNSMessage::encode_host(&host, &query_type)).encode()
CallEncode ==
    /\ probe.op = "encode"
    /\ probe.step = "new"
    /\ LET msg == DNSMessage_new(encode_host(probe.host, probe.query_type), probe.id)
       IN probe' = [probe EXCEPT !.step = "encoded", !.msg = msg,
                                 !.encoded = DNSMessage_encode(msg)]
    /\ UNCHANGED <<hosts, server, tasks, mainpc, outcome>>

\* msg.decode(&encoded, encoded.len()): the encoded bytes as if received
CallDecode ==
    /\ probe.op = "encode"
    /\ probe.step = "encoded"
    /\ probe' = [probe EXCEPT !.step = "decoded",
                   !.decoded = DNSMessage_decode(probe.encoded, Len(probe.encoded))]
    /\ UNCHANGED <<hosts, server, tasks, mainpc, outcome>>

NextCodec == CallRdCode \/ CallEncode \/ CallDecode

SpecCodec == InitCodec /\ [][NextCodec]_vars

-----------------------------------------------------------------------------
(* Reading a response and an address text independently of the client:     *)
(* used to state the properties below                                      *)

Range(f) == { f[x] : x \in DOMAIN f }

RECURSIVE ParseDec(_)
ParseDec(digits) ==
    IF digits = <<>> THEN 0
    ELSE ParseDec(SubSeq(digits, 1, Len(digits) - 1)) * 10
           + (digits[Len(digits)] - 48)

HexValue(c) == IF c >= 97 THEN c - 87 ELSE c - 48

RECURSIVE ParseHex(_)
ParseHex(digits) ==
    IF digits = <<>> THEN 0
    ELSE ParseHex(SubSeq(digits, 1, Len(digits) - 1)) * 16
           + HexValue(digits[Len(digits)])

\* the four bytes of a dotted-quad text
Ipv4FromText(text) ==
    LET parts == Split(text, 46) IN [k \in 1..Len(parts) |-> ParseDec(parts[k])]

\* the 16-bit groups of a colon-separated text without "::"; a last part in
\* dotted-quad form stands for two groups
Ipv6Groups(text) ==
    IF text = <<>> THEN <<>>
    ELSE LET parts == Split(text, 58)
             last == parts[Len(parts)]
             hex(ps) == [k \in 1..Len(ps) |-> ParseHex(ps[k])]
         IN IF 46 \in Range(last)
            THEN LET quad == Ipv4FromText(last)
                 IN hex(SubSeq(parts, 1, Len(parts) - 1))
                      \o <<U16(quad[1], quad[2]), U16(quad[3], quad[4])>>
            ELSE hex(parts)

\* the eight 16-bit groups of an IPv6 text (RFC 4291 section 2.2)
Ipv6FromText(text) ==
    LET dc == { i \in 1..(Len(text) - 1) : text[i] = 58 /\ text[i + 1] = 58 }
    IN IF dc = {} THEN Ipv6Groups(text)
       ELSE LET i == CHOOSE j \in dc : TRUE
                left == Ipv6Groups(SubSeq(text, 1, i - 1))
                right == Ipv6Groups(SubSeq(text, i + 2, Len(text)))
            IN left \o Repeat(0, 8 - Len(left) - Len(right)) \o right

\* the resource records (RFC 1035 section 4.1.3, two-byte names) that the
\* bytes consist of; `whole` is false when the bytes end inside a record
RECURSIVE RecordsIn(_)
RecordsIn(bytes) ==
    IF bytes = <<>> THEN [whole |-> TRUE, recs |-> <<>>]
    ELSE IF Len(bytes) < 12 \/ Len(bytes) < 12 + U16(bytes[11], bytes[12])
    THEN [whole |-> FALSE, recs |-> <<>>]
    ELSE LET rdlen == U16(bytes[11], bytes[12])
             more == RecordsIn(SubSeq(bytes, 13 + rdlen, Len(bytes)))
         IN [whole |-> more.whole,
             recs |-> <<[name |-> bytes[1], type |-> SubSeq(bytes, 3, 4),
                         class |-> SubSeq(bytes, 5, 6), rdlen |-> rdlen,
                         rdata |-> SubSeq(bytes, 13, 12 + rdlen)]>> \o more.recs]

\* the task's query returned after receiving one datagram
Received(task) == task.pc = "done" /\ task.nrecv = 1

\* fields of the received datagram's header
RespId(task) == SubSeq(task.data, 1, 2)
RespStatus(task) == task.data[4] % 16
RespAnswerCount(task) == U16(task.data[7], task.data[8])

\* the datagram passes DNSMessage::decode
Decodes(task) == DNSMessage_decode(task.data, Len(task.data)).ok

\* the datagram carries the query's question right after the header
EchoesQuestion(task) ==
    /\ Len(task.data) >= 12 + Len(task.queries)
    /\ SubSeq(task.data, 13, 12 + Len(task.queries)) = task.queries

\* what follows the echoed question
AfterQuestion(task) ==
    RecordsIn(SubSeq(task.data, 13 + Len(task.queries), Len(task.data)))

\* a record in the supported layout: compression pointer, class IN
Pointed(rec) == rec.name = 192 /\ rec.class = <<0, 1>>

StatusError(code) ==
    CASE code = 1 -> "RDCodeFormatError"
      [] code = 2 -> "RDCodeServerFailure"
      [] code = 3 -> "RDCodeNameError"
      [] code = 4 -> "RDCodeNotImplemented"
      [] code = 5 -> "RDCodeRefused"
      [] OTHER -> "Ok"

-----------------------------------------------------------------------------
(* Properties *)

\* C1: a received datagram that passes structural decoding and whose
\* transaction id differs from the id of the query sent makes query return
\* DecodeIdError, whatever its response code and body; no answer is returned
\* and exactly one datagram has been sent.
C1_IdMismatch ==
    \A t \in 1..Len(tasks) :
        (Received(tasks[t]) /\ Decodes(tasks[t])
           /\ RespId(tasks[t]) # tasks[t].msg.id)
        => /\ tasks[t].result = Failure("DecodeIdError")
           /\ tasks[t].nsent = 1

\* C1's case: another id on a success response with a well-formed A record
C1_Witness ==
    \E t \in 1..Len(tasks) :
        /\ Received(tasks[t]) /\ Decodes(tasks[t])
        /\ RespId(tasks[t]) # tasks[t].msg.id
        /\ RespStatus(tasks[t]) = 0
        /\ EchoesQuestion(tasks[t])
        /\ AfterQuestion(tasks[t]).whole
        /\ Len(AfterQuestion(tasks[t]).recs) = 1
        /\ AfterQuestion(tasks[t]).recs[1].type = <<0, 1>>
        /\ Pointed(AfterQuestion(tasks[t]).recs[1])
        /\ tasks[t].result.kind = "DecodeIdError"

C3_RdCodeTable ==
    (probe.op = "rd_code" /\ probe.out # "unset")
    => probe.out = StatusError(probe.flags[2] % 16)

\* C3's case: status 3 with every other flag bit set
C3_Witness ==
    /\ probe.op = "rd_code"
    /\ probe.flags = <<255, 243>>
    /\ probe.out = "RDCodeNameError"

\* C4: for every host and type A or AAAA the encoded query is the id, flags
\* 01 00, question count 00 01, six zero bytes and the encoded question, and
\* nothing else: 12 + the question's length bytes.
C4_ExactWireFormat ==
    (probe.op = "encode" /\ probe.step # "new"
       /\ probe.query_type \in {"A", "AAAA"})
    => /\ probe.encoded =
            <<probe.id \div 256, probe.id % 256, 1, 0, 0, 1, 0, 0, 0, 0, 0, 0>>
              \o encode_host(probe.host, probe.query_type)
       /\ Len(probe.encoded) = 12 + Len(encode_host(probe.host, probe.query_type))

\* C5: decoding the encoded query succeeds and gives the same id and header
\* fields, with `queries` the whole encoded question of the host.
C5_RoundTrip ==
    (probe.op = "encode" /\ probe.step = "decoded"
       /\ probe.query_type \in {"A", "AAAA"})
    => /\ probe.decoded.ok
       /\ probe.decoded.msg.id = probe.msg.id
       /\ probe.decoded.msg.flags = probe.msg.flags
       /\ probe.decoded.msg.questions = probe.msg.questions
       /\ probe.decoded.msg.answers_rrs = probe.msg.answers_rrs
       /\ probe.decoded.msg.authority_rrs = probe.msg.authority_rrs
       /\ probe.decoded.msg.additional_rrs = probe.msg.additional_rrs
       /\ probe.decoded.msg.queries = encode_host(probe.host, probe.query_type)

\* a success response with the query's id that echoes the question and then
\* carries exactly one record, in the answer section
OneRecord(task) ==
    /\ Received(task)
    /\ Len(task.data) >= 12
    /\ RespId(task) = task.msg.id
    /\ RespStatus(task) = 0
    /\ EchoesQuestion(task)
    /\ RespAnswerCount(task) = 1
    /\ AfterQuestion(task).whole
    /\ Len(AfterQuestion(task).recs) = 1
    /\ Pointed(AfterQuestion(task).recs[1])

\* "93.184.216.34" and "2001:db8::1"
Text4 == <<57, 51, 46, 49, 56, 52, 46, 50, 49, 54, 46, 51, 52>>
Text16 == <<50, 48, 48, 49, 58, 100, 98, 56, 58, 58, 49>>

\* C6: such a response with one A record of 4 RDATA bytes, or one AAAA record
\* of 16, makes query return exactly one answer, for the queried host, whose
\* address text reads back as the 4 bytes, or as the eight big-endian byte
\* pairs, of the RDATA; 93.184.216.34 and 2001:db8::1 print as in the spec.
C6_OneAddress ==
    \A t \in 1..Len(tasks) :
        LET task == tasks[t]
            rec == AfterQuestion(task).recs[1]
            answer == task.result.answers[1]
        IN (OneRecord(task)
              /\ \/ rec.type = <<0, 1>> /\ rec.rdlen = 4
                 \/ rec.type = <<0, 28>> /\ rec.rdlen = 16)
           => /\ task.result.kind = "Ok"
              /\ Len(task.result.answers) = 1
              /\ answer.host = task.host
              /\ answer.class_type = "IN"
              /\ rec.type = <<0, 1>> =>
                    /\ answer.query_type = "A"
                    /\ Ipv4FromText(answer.address) = rec.rdata
                    /\ rec.rdata = Rdata4 => answer.address = Text4
              /\ rec.type = <<0, 28>> =>
                    /\ answer.query_type = "AAAA"
                    /\ Ipv6FromText(answer.address) =
                         [k \in 1..8 |-> U16(rec.rdata[2 * k - 1], rec.rdata[2 * k])]
                    /\ rec.rdata = Rdata16 => answer.address = Text16

\* C6's case: the AAAA record 2001:db8::1 in answer to a query for "a.b"
C6_Witness ==
    \E t \in 1..Len(tasks) :
        /\ OneRecord(tasks[t])
        /\ tasks[t].host = <<97, 46, 98>>
        /\ AfterQuestion(tasks[t]).recs[1].type = <<0, 28>>
        /\ AfterQuestion(tasks[t]).recs[1].rdata = Rdata16
        /\ tasks[t].result.kind = "Ok"
        /\ Len(tasks[t].result.answers) = 1
        /\ tasks[t].result.answers[1].address = Text16

\* a success response with the query's id that echoes the question and then
\* carries only whole CNAME and SOA records, or nothing
NoAddressRecord(task) ==
    /\ Received(task)
    /\ Len(task.data) >= 12
    /\ RespId(task) = task.msg.id
    /\ RespStatus(task) = 0
    /\ EchoesQuestion(task)
    /\ AfterQuestion(task).whole
    /\ \A k \in 1..Len(AfterQuestion(task).recs) :
          /\ Pointed(AfterQuestion(task).recs[k])
          /\ AfterQuestion(task).recs[k].type \in {<<0, 5>>, <<0, 6>>}

\* C7: a response without any A or AAAA record after the question makes query
\* return success with no answers.
C7_EmptyIsSuccess ==
    \A t \in 1..Len(tasks) :
        NoAddressRecord(tasks[t]) => tasks[t].result = Result("Ok", <<>>)

\* C7's case: a CNAME record and nothing else after the question
C7_Witness ==
    \E t \in 1..Len(tasks) :
        /\ NoAddressRecord(tasks[t])
        /\ Len(AfterQuestion(tasks[t]).recs) = 1
        /\ AfterQuestion(tasks[t]).recs[1].type = <<0, 5>>
        /\ tasks[t].result = Result("Ok", <<>>)

\* main went past the choice of the resolver address into the fan-out
FanOut == server # ""

AllSpawned == Len(tasks) = 2 * Len(hosts)

Failed(task) == task.pc = "done" /\ task.result.kind # "Ok"

Succeeded(task) == task.pc = "done" /\ task.result.kind = "Ok"

\* C8: when an exchange ended in an error the run's result is one error, that
\* of a failed exchange, and no answer is output; answers are output only when
\* every exchange succeeded, and then they are the answers of all of them;
\* nothing is output before main is done.
C8_AllOrNothing ==
    /\ mainpc # "done" => outcome = NoOutcome
    /\ mainpc = "done" =>
         /\ (\E t \in 1..Len(tasks) : Failed(tasks[t])) =>
               /\ outcome.kind = "error"
               /\ outcome.answers = <<>>
               /\ \E t \in 1..Len(tasks) :
                    Failed(tasks[t]) /\ outcome.error = tasks[t].result.kind
         /\ outcome.kind = "answers" =>
               /\ AllSpawned
               /\ \A t \in 1..Len(tasks) : Succeeded(tasks[t])
               /\ outcome.answers =
                    Concat([t \in 1..Len(tasks) |-> tasks[t].result.answers])
         /\ (FanOut /\ \A t \in 1..Len(tasks) : Succeeded(tasks[t])) =>
               outcome.kind = "answers"

\* C8's case: one exchange returned an address, another failed, and the run
\* ended with the error alone
C8_Witness ==
    /\ mainpc = "done"
    /\ \E t, u \in 1..Len(tasks) :
         /\ Succeeded(tasks[t]) /\ Len(tasks[t].result.answers) = 1
         /\ Failed(tasks[u])
    /\ outcome.kind = "error"
    /\ outcome.answers = <<>>

\* C9: in the fan-out the tasks are, in order, (host, AAAA) and (host, A) for
\* each host of the command line, 2N in all once spawned, all given main's
\* resolver address; every socket belongs to one task, which sends at most one
\* datagram and receives at most one on it.
C9_TaskPerPair ==
    /\ Len(tasks) <= 2 * Len(hosts)
    /\ (mainpc = "done" /\ FanOut) => AllSpawned
    /\ \A t \in 1..Len(tasks) :
         /\ tasks[t].host = hosts[(t + 1) \div 2]
         /\ tasks[t].query_type = (IF t % 2 = 1 THEN "AAAA" ELSE "A")
         /\ tasks[t].server = server
         /\ tasks[t].nsent <= 1 /\ tasks[t].nrecv <= tasks[t].nsent
         /\ tasks[t].nsent = 1 => tasks[t].sock # 0
         /\ \A u \in 1..Len(tasks) :
              (u # t /\ tasks[t].sock # 0) => tasks[u].sock # tasks[t].sock

\* C9's case: the same host twice, four tasks, each having sent its query on a
\* socket of its own
C9_Witness ==
    /\ Len(hosts) = 2 /\ hosts[1] = hosts[2]
    /\ Len(tasks) = 4
    /\ \A t \in 1..4 : tasks[t].sock # 0 /\ tasks[t].nsent = 1
    /\ mainpc = "done"

AnyLost == \E t \in 1..Len(tasks) : tasks[t].lost

\* C10: main reports only after all 2N tasks are done; a task whose resolver
\* never answers stays in its receive and the run then reports nothing,
\* whatever the other tasks did; and if no task is left without an answer the
\* run eventually reports.
C10_WaitsForAll ==
    /\ []((mainpc = "done" /\ FanOut) =>
            (AllSpawned /\ \A t \in 1..Len(tasks) : tasks[t].pc = "done"))
    /\ [](AnyLost => outcome = NoOutcome)
    /\ [][\A t \in 1..Len(tasks) :
            tasks[t].lost => (tasks'[t].lost /\ tasks'[t].pc = "recv")]_vars
    /\ <>(mainpc = "done" \/ AnyLost)

\* C10's case: every task is spawned, one waits for an answer that never
\* comes, another has failed, and main has reported nothing
C10_Witness ==
    /\ mainpc = "spawn" /\ AllSpawned
    /\ \E t, u \in 1..Len(tasks) :
         /\ tasks[t].lost /\ tasks[t].pc = "recv"
         /\ Failed(tasks[u])
    /\ outcome = NoOutcome

\* C11: a query sends at most one datagram and receives at most one, the
\* receive only after the send succeeded; a failed send gives SendError with
\* nothing sent or received; once the query has returned, with an error or
\* not, it sends and receives nothing more.
C11_OneExchange ==
    /\ [](\A t \in 1..Len(tasks) :
            /\ tasks[t].nsent <= 1 /\ tasks[t].nrecv <= tasks[t].nsent
            /\ tasks[t].pc \in {"new", "send"} =>
                  tasks[t].nsent = 0 /\ tasks[t].nrecv = 0
            /\ tasks[t].pc = "recv" => tasks[t].nsent = 1 /\ tasks[t].nrecv = 0
            /\ tasks[t].result.kind = "SendError" =>
                  tasks[t].nsent = 0 /\ tasks[t].nrecv = 0
            /\ tasks[t].result.kind \in {"RecvError", "DecodeError",
                     "DecodeIdError", "RDCodeNameError", "Panic", "Ok"} =>
                  tasks[t].nsent = 1)
    /\ [][\A t \in 1..Len(tasks) :
            /\ tasks[t].pc = "done" => tasks'[t] = tasks[t]
            /\ tasks'[t].nrecv > tasks[t].nrecv =>
                  tasks[t].pc = "recv" /\ tasks[t].nsent = 1
            /\ tasks'[t].nsent > tasks[t].nsent =>
                  tasks[t].pc = "send" /\ tasks'[t].pc = "recv"]_vars

\* C11's case: the query sent its datagram, received one that does not
\* decode, and returned DecodeError
C11_Witness ==
    \E t \in 1..Len(tasks) :
        /\ tasks[t].pc = "done"
        /\ tasks[t].nsent = 1 /\ tasks[t].nrecv = 1
        /\ tasks[t].result = Failure("DecodeError")

\* the bytes after the echoed question, where the walk starts
AnswerBytes(task) == SubSeq(task.data, 13 + Len(task.queries), Len(task.data))

\* a decoded success response to the task's query that echoes the question
SuccessResponse(task) ==
    /\ Received(task) /\ Decodes(task)
    /\ RespId(task) = task.msg.id
    /\ RespStatus(task) \notin 1..5
    /\ EchoesQuestion(task)

\* fields of the record that starts at 0-based offset i of the bytes
TypeAt(bytes, i) == SubSeq(bytes, i + 3, i + 4)
ClassAt(bytes, i) == SubSeq(bytes, i + 5, i + 6)
RdLengthAt(bytes, i) == U16(bytes[i + 11], bytes[i + 12])

KnownTypes == { <<0, 1>>, <<0, 28>>, <<0, 5>>, <<0, 6>> }

\* the record at offset i is not in the supported layout
BadAt(bytes, i) ==
    \/ bytes[i + 1] # 192
    \/ TypeAt(bytes, i) \notin KnownTypes
    \/ ClassAt(bytes, i) # <<0, 1>>

\* the record at offset i is in the supported layout and, for an address
\* type, the bytes hold an address of that type's size after its prefix
GoodAt(bytes, i) ==
    /\ ~BadAt(bytes, i)
    /\ TypeAt(bytes, i) = <<0, 1>> => Len(bytes) - i >= 16
    /\ TypeAt(bytes, i) = <<0, 28>> => Len(bytes) - i >= 28

\* going from record to record by 12 + RDLENGTH from offset i, over records
\* that are all good, one arrives at offset j with more than 12 bytes left
RECURSIVE Reaches(_, _, _)
Reaches(bytes, i, j) ==
    IF Len(bytes) - i <= 12 \/ i > j THEN FALSE
    ELSE IF i = j THEN TRUE
    ELSE GoodAt(bytes, i) /\ Reaches(bytes, i + 12 + RdLengthAt(bytes, i), j)

\* C12: when the walk, having passed good records only, reaches a record whose
\* first byte is not 0xC0, whose type is none of A, AAAA, CNAME, SOA, or whose
\* class is not IN, query returns DecodeError and no answer.
C12_BadRecord ==
    \A t \in 1..Len(tasks) :
        (SuccessResponse(tasks[t])
           /\ \E j \in 0..Len(AnswerBytes(tasks[t])) :
                 /\ Reaches(AnswerBytes(tasks[t]), 0, j)
                 /\ BadAt(AnswerBytes(tasks[t]), j))
        => tasks[t].result = Failure("DecodeError")

\* C12's case: a good A record followed by an A record of class 3
C12_Witness ==
    \E t \in 1..Len(tasks) :
        /\ SuccessResponse(tasks[t])
        /\ Reaches(AnswerBytes(tasks[t]), 0, 16)
        /\ TypeAt(AnswerBytes(tasks[t]), 0) = <<0, 1>>
        /\ ClassAt(AnswerBytes(tasks[t]), 16) = <<0, 3>>
        /\ tasks[t].result = Failure("DecodeError")

\* an encode probe whose question has been built, for an address type
Encoded == probe.op = "encode" /\ probe.step # "new"

EncodedAddressType == Encoded /\ probe.query_type \in {"A", "AAAA"}

\* the labels of a host text: the pieces between dots
Labels(host) == Split(host, 46)

RECURSIVE SumLen(_)
SumLen(labels) ==
    IF labels = <<>> THEN 0 ELSE Len(Head(labels)) + SumLen(Tail(labels))

\* the question without its last four bytes (type and class)
LabelSequence == SubSeq(probe.msg.queries, 1, Len(probe.msg.queries) - 4)

\* the label sequence is the labels, each after one byte equal to its length,
\* then one zero byte
WellFormedName(labels, name) ==
    /\ Len(name) = SumLen(labels) + Len(labels) + 1
    /\ \A k \in 1..Len(labels) :
          LET at == SumLen(SubSeq(labels, 1, k - 1)) + k
          IN /\ name[at] = Len(labels[k])
             /\ SubSeq(name, at + 1, at + Len(labels[k])) = labels[k]
    /\ name[Len(name)] = 0

TwoOrMoreLabels(host) ==
    /\ Len(Labels(host)) >= 2
    /\ \A k \in 1..Len(Labels(host)) : Len(Labels(host)[k]) > 0

\* C13 as stated: for every host of two or more non-empty labels the label
\* sequence is well formed, whatever the length of the labels.
C13_AnyLabelLength ==
    (EncodedAddressType /\ TwoOrMoreLabels(probe.host))
    => WellFormedName(Labels(probe.host), LabelSequence)

\* C13: for every host of two or more non-empty labels of at most 255 bytes
\* each, the label sequence has length sum of label lengths + number of labels
\* + 1, each label follows one byte equal to its length, and the last byte is
\* zero.
C13_LabelSequence ==
    (EncodedAddressType /\ TwoOrMoreLabels(probe.host)
       /\ \A k \in 1..Len(Labels(probe.host)) : Len(Labels(probe.host)[k]) <= 255)
    => WellFormedName(Labels(probe.host), LabelSequence)

\* C13's case: a first label of 246 bytes and a second of one byte, encoded
\* in 250 bytes
C13_Witness ==
    /\ EncodedAddressType
    /\ Len(Labels(probe.host)) = 2
    /\ Len(Labels(probe.host)[1]) = 246
    /\ Len(LabelSequence) = 250
    /\ LabelSequence[1] = 246 /\ LabelSequence[248] = 1 /\ LabelSequence[250] = 0

\* the number of bytes of the label sequence of a host
NameLen(host) == SumLen(Labels(host)) + Len(Labels(host)) + 1

\* C14: for each of the four query types the question is the label sequence,
\* two type bytes and the class bytes 00 01, label-sequence length + 4 bytes in
\* all, and decode_query_type of the two type bytes gives the type back.
C14_QuestionLayout ==
    Encoded =>
        LET question == probe.msg.queries
            n == NameLen(probe.host)
        IN /\ Len(question) = n + 4
           /\ question[n] = 0
           /\ decode_query_type(SubSeq(question, n + 1, n + 2))
                = [ok |-> TRUE, val |-> probe.query_type]
           /\ SubSeq(question, n + 3, n + 4) = <<0, 1>>

\* going from record to record by 12 + RDLENGTH from offset i, over records
\* that are all good, one arrives at offset j with at least 12 bytes left
RECURSIVE ReachesPrefix(_, _, _)
ReachesPrefix(bytes, i, j) ==
    IF Len(bytes) - i < 12 \/ i > j THEN FALSE
    ELSE IF i = j THEN TRUE
    ELSE GoodAt(bytes, i) /\ ReachesPrefix(bytes, i + 12 + RdLengthAt(bytes, i), j)

\* C15: the walk processes the record at the cursor whenever at least 12
\* bytes remain: a record with 12 bytes or more left whose first byte is not
\* 0xC0, or whose type or class is not recognised, gives DecodeError, also
\* when exactly 12 bytes remain.
C15_TwelveBytesProcessed ==
    \A t \in 1..Len(tasks) :
        (SuccessResponse(tasks[t])
           /\ \E j \in 0..Len(AnswerBytes(tasks[t])) :
                 /\ ReachesPrefix(AnswerBytes(tasks[t]), 0, j)
                 /\ BadAt(AnswerBytes(tasks[t]), j))
        => tasks[t].result = Failure("DecodeError")

AddressTypes == { <<0, 1>>, <<0, 28>> }

\* the size of an address of the record's type
AddressSize(rec) == IF rec.type = <<0, 1>> THEN 4 ELSE 16

\* the records of address type among the records, in order
AddressRecords(recs) == SelectSeq(recs, LAMBDA rec : rec.type \in AddressTypes)

\* a success response whose bytes after the question are whole records in the
\* supported layout, each address record declaring at least an address
WholeRecords(task) ==
    /\ SuccessResponse(task)
    /\ AfterQuestion(task).whole
    /\ \A k \in 1..Len(AfterQuestion(task).recs) :
          LET rec == AfterQuestion(task).recs[k]
          IN /\ Pointed(rec)
             /\ rec.type \in KnownTypes
             /\ rec.type \in AddressTypes => rec.rdlen >= AddressSize(rec)

\* the answer is the address at the start of the record's RDATA
AnswerOf(answer, rec) ==
    IF rec.type = <<0, 1>>
    THEN /\ answer.query_type = "A"
         /\ Ipv4FromText(answer.address) = SubSeq(rec.rdata, 1, 4)
    ELSE /\ answer.query_type = "AAAA"
         /\ Ipv6FromText(answer.address) =
              [k \in 1..8 |-> U16(rec.rdata[2 * k - 1], rec.rdata[2 * k])]

\* C16: the walk goes from each record to the one that starts 12 + RDLENGTH
\* bytes further, whatever the record's type: over whole records it returns
\* one answer per A or AAAA record, in order, read at the start of that
\* record's RDATA, and CNAME and SOA records give no answer and no error; each
\* step moves the cursor by 12 or more, and every walk ends.
C16_CursorAdvance ==
    /\ \A i \in 0..64, data_len \in {0, 1, 4, 16, 255, 65535} :
          NextRecord(i, data_len) >= i + 12
    /\ \A t \in 1..Len(tasks) :
          /\ Received(tasks[t]) =>
                tasks[t].result.kind \in
                    {"Ok", "DecodeError", "DecodeIdError", "Panic",
                     "RDCodeFormatError", "RDCodeServerFailure",
                     "RDCodeNameError", "RDCodeNotImplemented", "RDCodeRefused"}
          /\ WholeRecords(tasks[t]) =>
                LET expected == AddressRecords(AfterQuestion(tasks[t]).recs)
                    answers == tasks[t].result.answers
                IN /\ tasks[t].result.kind = "Ok"
                   /\ Len(answers) = Len(expected)
                   /\ \A k \in 1..Len(expected) : AnswerOf(answers[k], expected[k])

\* C16's case: an A record declaring 6 bytes of RDATA, then an AAAA record;
\* both addresses are returned
C16_Witness ==
    \E t \in 1..Len(tasks) :
        /\ WholeRecords(tasks[t])
        /\ Len(AfterQuestion(tasks[t]).recs) = 2
        /\ AfterQuestion(tasks[t]).recs[1].type = <<0, 1>>
        /\ AfterQuestion(tasks[t]).recs[1].rdlen = 6
        /\ AfterQuestion(tasks[t]).recs[2].type = <<0, 28>>
        /\ tasks[t].result.kind = "Ok"
        /\ Len(tasks[t].result.answers) = 2
        /\ tasks[t].result.answers[1].address = Text4
        /\ tasks[t].result.answers[2].address = Text16

\* the tasks whose exchange failed
Failing == { t \in 1..Len(tasks) : Failed(tasks[t]) }

\* the error main reports for a failed task: its error, or GenericError when
\* the task did not return
ReportedError(task) ==
    IF task.result.kind = "Panic" THEN "GenericError" ELSE task.result.kind

\* C17: once main is done after the fan-out, its result is determined by the
\* results of the tasks in task order, in whatever order they completed: the
\* error of the first failed task in that order (host order, AAAA before A)
\* and nothing else, or the answers of all tasks in that order.
C17_FirstInOrder ==
    (mainpc = "done" /\ FanOut) =>
        IF Failing = {}
        THEN /\ outcome.kind = "answers"
             /\ outcome.answers =
                  Concat([t \in 1..Len(tasks) |-> tasks[t].result.answers])
        ELSE LET first == CHOOSE t \in Failing : \A u \in Failing : t <= u
             IN /\ outcome.kind = "error"
                /\ outcome.error = ReportedError(tasks[first])
                /\ outcome.answers = <<>>

\* C17's case: the AAAA task of the first host failed on the resolver's
\* status, the A task of the same host failed earlier in its exchange, at the
\* bind, and the run reports the status error
C17_Witness ==
    /\ mainpc = "done"
    /\ Len(tasks) >= 2
    /\ tasks[1].result.kind = "RDCodeNameError"
    /\ tasks[2].result.kind = "BindError"
    /\ outcome.kind = "error"
    /\ outcome.error = "RDCodeNameError"

\* the walk, after good records only, is at an address record in the
\* supported layout with more than 12 bytes left but fewer than the 12-byte
\* prefix and an address of its type
ShortAddressRecord(bytes, j) ==
    /\ Reaches(bytes, 0, j)
    /\ ~BadAt(bytes, j)
    /\ \/ TypeAt(bytes, j) = <<0, 1>> /\ Len(bytes) - j < 16
       \/ TypeAt(bytes, j) = <<0, 28>> /\ Len(bytes) - j < 28

\* C18: a success response with the query's id in which the walk comes to an
\* A record with more than 12 and fewer than 16 bytes left, or to an AAAA
\* record with more than 12 and fewer than 28 left, makes the walk index past
\* the end of the data: query does not return, neither answers nor an error.
C18_ReadsPastEnd ==
    \A t \in 1..Len(tasks) :
        (SuccessResponse(tasks[t])
           /\ \E j \in 0..Len(AnswerBytes(tasks[t])) :
                 ShortAddressRecord(AnswerBytes(tasks[t]), j))
        => tasks[t].result.kind = "Panic"

\* C18's case: an A record cut after the second byte of its address
C18_Witness ==
    \E t \in 1..Len(tasks) :
        /\ SuccessResponse(tasks[t])
        /\ RespStatus(tasks[t]) = 0
        /\ Len(AnswerBytes(tasks[t])) = 14
        /\ ShortAddressRecord(AnswerBytes(tasks[t]), 0)
        /\ TypeAt(AnswerBytes(tasks[t]), 0) = <<0, 1>>
        /\ tasks[t].result.kind = "Panic"

\* C19: query never returns more answers than the answer count of the
\* response header says: records after the answer section give no answer.
C19_WithinAnswerCount ==
    \A t \in 1..Len(tasks) :
        (Received(tasks[t]) /\ Len(tasks[t].data) >= 12)
        => Len(tasks[t].result.answers) <= RespAnswerCount(tasks[t])

\* reading length-prefixed labels from position `at` of the name: the
\* position of the first zero length byte, 0 if the name ends without one
RECURSIVE FirstZeroLabel(_, _)
FirstZeroLabel(name, at) ==
    IF at > Len(name) THEN 0
    ELSE IF name[at] = 0 THEN at
    ELSE FirstZeroLabel(name, at + 1 + name[at])

\* C20: for every host text the first zero-length label of the encoded name
\* is the last byte of the label sequence, so that the type and class follow
\* the first zero length byte.
C20_OneTerminator ==
    EncodedAddressType =>
        /\ FirstZeroLabel(LabelSequence, 1) = Len(LabelSequence)
        /\ LET at == FirstZeroLabel(probe.msg.queries, 1)
           IN SubSeq(probe.msg.queries, at + 1, at + 4)
                = encode_query_type(probe.query_type) \o <<0, 1>>

=============================================================================
